---- MODULE Spec2Model ----
(***************************************************************************)
(* docs/source/conf.py of ataraxis-micro-controller: the Sphinx            *)
(* configuration module.  The documentation builder loads it by executing  *)
(* its statements, top to bottom, in a fresh namespace; the names bound    *)
(* when the last statement has run are the configuration of that build.    *)
(*                                                                         *)
(* The model executes the file statement by statement.  The import at      *)
(* line 2 either binds the module or raises ImportError, which aborts the  *)
(* load; every other statement binds a name to a constant.  A builder      *)
(* loads the file once per build, and MaxLoads builds are followed.        *)
(***************************************************************************)
EXTENDS Integers, Sequences, FiniteSets, TLC

\* The number of builds (loads of conf.py) that are followed.
MaxLoads == 6

(***************************************************************************)
(* The constants of conf.py.  A Python list is a sequence, a dict is a     *)
(* function from its keys to their values, a str is a string.              *)
(***************************************************************************)

\* What `import sphinx_rtd_theme` binds: the module object of that name.
sphinx_rtd_theme == [module |-> "sphinx_rtd_theme"]

project_renamed == "ataraxis-tl-microcontroller"
project == "SerializedTransferProtocol_Microcontroller"

copyright == "2024, Ivan Kondratyev (Inkaros)"

author == "Ivan Kondratyev (Inkaros)"

release == "1.0.0"

extensions_noTheme == << "breathe" >>
extensions_swapped == << "sphinx_rtd_theme", "breathe" >>
extensions == << "breathe", "sphinx_rtd_theme" >>

breathe_projects_html == ("SerializedTransferProtocol_Microcontroller" :> "./doxygen/html")
breathe_projects == ("SerializedTransferProtocol_Microcontroller" :> "./doxygen/xml")

breathe_default_project == "SerializedTransferProtocol_Microcontroller"

templates_path == << "_templates" >>

exclude_patterns == << >>

html_theme_default == "alabaster"
html_theme == "sphinx_rtd_theme"

(***************************************************************************)
(* The statements of conf.py in the order of the file.                     *)
(***************************************************************************)
Stmt(op, name, value) == [op |-> op, name |-> name, value |-> value]

\* conf.py with the theme chosen twice: a default first, the real one last.
Program_reassigned ==
    << Stmt("import", "sphinx_rtd_theme", sphinx_rtd_theme),
       Stmt("assign", "project", project),
       Stmt("assign", "copyright", copyright),
       Stmt("assign", "author", author),
       Stmt("assign", "release", release),
       Stmt("assign", "html_theme", html_theme_default),
       Stmt("assign", "extensions", extensions),
       Stmt("assign", "breathe_projects", breathe_projects),
       Stmt("assign", "breathe_default_project", breathe_default_project),
       Stmt("assign", "templates_path", templates_path),
       Stmt("assign", "exclude_patterns", exclude_patterns),
       Stmt("assign", "html_theme", html_theme) >>

Program ==
    << Stmt("import", "sphinx_rtd_theme", sphinx_rtd_theme),
       Stmt("assign", "project", project),
       Stmt("assign", "copyright", copyright),
       Stmt("assign", "author", author),
       Stmt("assign", "release", release),
       Stmt("assign", "extensions", extensions),
       Stmt("assign", "breathe_projects", breathe_projects),
       Stmt("assign", "breathe_default_project", breathe_default_project),
       Stmt("assign", "templates_path", templates_path),
       Stmt("assign", "exclude_patterns", exclude_patterns),
       Stmt("assign", "html_theme", html_theme) >>

\* The names conf.py assigns: the configuration values Sphinx reads.
ConfigNames ==
    { "project", "copyright", "author", "release", "extensions",
      "breathe_projects", "breathe_default_project", "templates_path",
      "exclude_patterns", "html_theme" }

\* Python's name binding: `name = value` binds or rebinds name in namespace.
Bind(namespace, name, value) ==
    [ n \in (DOMAIN namespace) \cup {name} |->
        IF n = name THEN value ELSE namespace[n] ]

\* The namespace a load starts from: no name of conf.py is bound.
EmptyNamespace == [ n \in {} |-> "" ]

VARIABLES
    phase,      \* "idle", "running", "loaded" or "failed" (ImportError)
    pc,         \* index in Program of the next statement to execute
    ns,         \* the namespace of the load: bound name -> value
    assigned,   \* per configuration name, the assignments made in this load
    loads,      \* the number of loads started so far
    finals      \* the namespaces the completed loads ended in, in order

vars == << phase, pc, ns, assigned, loads, finals >>

Init ==
    /\ phase = "idle"
    /\ pc = 1
    /\ ns = EmptyNamespace
    /\ assigned = [ n \in ConfigNames |-> 0 ]
    /\ loads = 0
    /\ finals = << >>

\* The builder starts to load conf.py: a fresh namespace, the first statement.
StartLoad ==
    /\ phase \in { "idle", "loaded", "failed" }
    /\ loads < MaxLoads
    /\ phase' = "running"
    /\ pc' = 1
    /\ ns' = EmptyNamespace
    /\ assigned' = [ n \in ConfigNames |-> 0 ]
    /\ loads' = loads + 1
    /\ UNCHANGED finals

\* `import sphinx_rtd_theme`, the module is installed: the name is bound.
Import ==
    /\ phase = "running"
    /\ pc <= Len(Program)
    /\ Program[pc].op = "import"
    /\ ns' = Bind(ns, Program[pc].name, Program[pc].value)
    /\ pc' = pc + 1
    /\ UNCHANGED << phase, assigned, loads, finals >>

\* `import sphinx_rtd_theme`, the module is not installed: ImportError
\* leaves the file, no later statement runs.
ImportError ==
    /\ phase = "running"
    /\ pc <= Len(Program)
    /\ Program[pc].op = "import"
    /\ phase' = "failed"
    /\ UNCHANGED << pc, ns, assigned, loads, finals >>

\* `name = constant`.
Assign ==
    /\ phase = "running"
    /\ pc <= Len(Program)
    /\ Program[pc].op = "assign"
    /\ ns' = Bind(ns, Program[pc].name, Program[pc].value)
    /\ assigned' = [ assigned EXCEPT ![Program[pc].name] = @ + 1 ]
    /\ pc' = pc + 1
    /\ UNCHANGED << phase, loads, finals >>

\* The end of the file: the namespace is the configuration of this build.
Finish ==
    /\ phase = "running"
    /\ pc = Len(Program) + 1
    /\ phase' = "loaded"
    /\ finals' = Append(finals, ns)
    /\ UNCHANGED << pc, ns, assigned, loads >>

Next ==
    \/ StartLoad
    \/ Import
    \/ ImportError
    \/ Assign
    \/ Finish

Spec == Init /\ [][Next]_vars

(***************************************************************************)
(* Properties of the configuration a completed load leaves behind.         *)
(***************************************************************************)

\* conf.py has been executed to its end in the current build.
Loaded == phase = "loaded"

\* The members of a Python list.
Members(list) == { list[i] : i \in 1..Len(list) }

\* C1: after conf.py is loaded, extensions is exactly the two-element list
\* ['breathe', 'sphinx_rtd_theme'], in that order.
C1_ExtensionsExact ==
    Loaded =>
        /\ "extensions" \in DOMAIN ns
        /\ Len(ns["extensions"]) = 2
        /\ ns["extensions"][1] = "breathe"
        /\ ns["extensions"][2] = "sphinx_rtd_theme"

C1_Witness ==
    /\ Loaded
    /\ "extensions" \in DOMAIN ns
    /\ Len(ns["extensions"]) = 2

\* C2: after conf.py is loaded, breathe_projects has exactly one entry, whose
\* key is the project name 'SerializedTransferProtocol_Microcontroller' and
\* whose value is the Doxygen XML directory './doxygen/xml'.
C2_BreatheProjects ==
    Loaded =>
        /\ "breathe_projects" \in DOMAIN ns
        /\ DOMAIN ns["breathe_projects"]
             = { "SerializedTransferProtocol_Microcontroller" }
        /\ ns["breathe_projects"]["SerializedTransferProtocol_Microcontroller"]
             = "./doxygen/xml"

C2_Witness ==
    /\ Loaded
    /\ "breathe_projects" \in DOMAIN ns
    /\ Cardinality(DOMAIN ns["breathe_projects"]) = 1

\* C3: after conf.py is loaded, html_theme equals 'sphinx_rtd_theme'.
C3_HtmlTheme ==
    Loaded =>
        /\ "html_theme" \in DOMAIN ns
        /\ ns["html_theme"] = "sphinx_rtd_theme"

C3_Witness ==
    /\ Loaded
    /\ "html_theme" \in DOMAIN ns

\* C6: after conf.py is loaded, breathe_default_project is a key of
\* breathe_projects, and that key, breathe_default_project and project are
\* all the same name.
C6_DefaultProjectResolves ==
    Loaded =>
        /\ { "project", "breathe_projects", "breathe_default_project" }
             \subseteq DOMAIN ns
        /\ ns["breathe_default_project"] \in DOMAIN ns["breathe_projects"]
        /\ ns["breathe_default_project"] = ns["project"]
        /\ \A key \in DOMAIN ns["breathe_projects"] : key = ns["project"]

C6_Witness ==
    /\ Loaded
    /\ { "project", "breathe_projects", "breathe_default_project" }
         \subseteq DOMAIN ns
    /\ DOMAIN ns["breathe_projects"] # {}

\* C7: after conf.py is loaded, the value of html_theme is a member of
\* extensions.
C7_ThemeIsExtension ==
    Loaded =>
        /\ { "html_theme", "extensions" } \subseteq DOMAIN ns
        /\ ns["html_theme"] \in Members(ns["extensions"])

C7_Witness ==
    /\ Loaded
    /\ { "html_theme", "extensions" } \subseteq DOMAIN ns
    /\ Members(ns["extensions"]) # {}

====
